---- MODULE Spec2Model ----
(***************************************************************************)
(* Model of the view drawing code of tig (src/src/draw.c): the clip-draw   *)
(* primitives, the field layout, the line-number column, the column        *)
(* dispatcher and the redraw scheduler.                                    *)
(*                                                                         *)
(* A string is a sequence of characters; a character is a one-letter       *)
(* string: "a" is a narrow character (one cell), "W" a wide one (two       *)
(* cells), " " a blank, "#" a digit.  The terminal window is modelled by   *)
(* the cells the code writes to it (waddnstr, waddch): a cell is a record  *)
(* [ch, type], type being the attribute type in force when it is written.  *)
(***************************************************************************)
EXTENDS Integers, Sequences, FiniteSets, TLC

VARIABLES
    view,   \* struct view: width, height, pos, col, curtype, curline, digits, lines
    line,   \* view->line[]: dirty, cleareol, selected of every line of the buffer
    opt,    \* the global options the drawing code reads (opt_*)
    pc,     \* "idle"; "row" while a draw callback runs; "done" after a pass; "abort"
    win,    \* the cells written to view->win by the last operation
    ret,    \* the value the last operation returned
    last,   \* the last operation called, its arguments, and view->col before it
    calls,  \* primitive calls made so far by the running draw callback
    log     \* terminal-level events of the last scheduler pass, in order

vars == <<view, line, opt, pc, win, ret, last, calls, log>>

----------------------------------------------------------------------------
(* Bounds of the model *)

MaxWidth == 3        \* view->width of the row machine is 0..MaxWidth
MaxPosCol == 1       \* view->pos.col (horizontal scroll) is 0..MaxPosCol
MaxText == 3         \* strings have at most MaxText characters
MaxCalls == 2        \* primitive calls per row by the stepwise draw callback
MaxLines == 5        \* size of the line buffer
SIZEOF_STR == 4      \* scratch buffer of draw_text_expanded, scaled down from 1024

(* Program constants *)

SPACE_CHUNK == 20    \* sizeof(space) - 1

NULL == <<"NULL">>   \* the null string pointer

Min(a, b) == IF a < b THEN a ELSE b
Max(a, b) == IF a > b THEN a ELSE b

Alphabet == {"a", "W"}

StringsUpTo(n) == UNION {[1..k -> Alphabet] : k \in 0..n}

\* Texts with a character ("X") that the output encoding does not have.
Unconvertible == {<<"X", "a", "a">>, <<"a", "X">>}

Spaces(n) == [k \in 1..n |-> " "]

----------------------------------------------------------------------------
(* The width engine (string.c, not part of src/): modelled after its       *)
(* contract as the drawing code uses it.                                   *)

\* Display width of one character.
unicode_width(ch, tab_size) ==
    IF ch = "W" THEN 2 ELSE IF ch = "T" THEN tab_size ELSE 1

\* a > b where b is a size_t that was given the int value b: a negative b
\* wraps to a huge value.
GtSize(a, b) == b >= 0 /\ a > b

RECURSIVE utf8_scan(_, _, _, _, _, _, _, _, _, _)
utf8_scan(string, i, start, skip, width, max_width, reserve, tab_size, last_bytes, last_ucwidth) ==
    IF i >= Len(string)
    THEN [start |-> start, len |-> i - start, width |-> width, trimmed |-> FALSE]
    ELSE LET ucwidth == unicode_width(string[i + 1], tab_size)
             skip1   == IF skip > 0 THEN skip - Min(ucwidth, skip) ELSE 0
             start1  == IF skip > 0 THEN start + 1 ELSE start
             width1  == width + ucwidth
         IN  IF GtSize(width1, max_width)
             THEN IF reserve /\ width = max_width
                  THEN [start |-> start1, len |-> (i - last_bytes) - start1,
                        width |-> width - last_ucwidth, trimmed |-> TRUE]
                  ELSE [start |-> start1, len |-> i - start1,
                        width |-> width, trimmed |-> TRUE]
             ELSE utf8_scan(string, i + 1, start1, skip1, width1, max_width,
                            reserve, tab_size,
                            IF ucwidth > 0 THEN 1 ELSE 0, ucwidth)

\* utf8_length(&string, skip, &width, max_width, &trimmed, reserve, tab_size):
\* start is how far *string was advanced, len the value returned (as the int
\* draw_chars stores it in), width and trimmed the two out parameters.
utf8_length(string, skip, max_width, reserve, tab_size) ==
    utf8_scan(string, 0, 0, skip, 0, max_width, reserve, tab_size, 0, 0)

\* utf8_width_max(text, max): the display width of text clipped to max.
utf8_width_max(text, max) == utf8_length(text, 0, max, FALSE, 1).width

\* utf8_width(text): the display width of text.
utf8_width(text) == utf8_length(text, 0, -1, FALSE, 1).width

\* encoding_iconv(opt_iconv_out, string, len): NULL when the conversion
\* fails, which it does on a character the output encoding cannot express.
encoding_iconv(iconv_out, string) ==
    IF \E k \in 1..Len(string) : string[k] = "X" THEN NULL ELSE string

\* string_expand(dst, dstlen, src, tabsize): the characters of src that fit
\* the buffer, tabs expanded to blanks; pos is how much of src was consumed.
RECURSIVE string_expand_from(_, _, _, _, _)
string_expand_from(dst, dstlen, src, pos, tabsize) ==
    IF ~(Len(dst) < dstlen - 1 /\ pos < Len(src))
    THEN [text |-> dst, pos |-> pos]
    ELSE IF src[pos + 1] = "T"
         THEN LET size == Len(dst)
                  exp0 == tabsize - (size % tabsize)
                  expanded == IF exp0 + size >= dstlen - 1
                              THEN dstlen - size - 1 ELSE exp0
              IN  string_expand_from(dst \o Spaces(expanded), dstlen, src,
                                     pos + 1, tabsize)
         ELSE string_expand_from(Append(dst, src[pos + 1]), dstlen, src,
                                 pos + 1, tabsize)

string_expand(dstlen, src, tabsize) ==
    string_expand_from(<<>>, dstlen, src, 0, tabsize)

----------------------------------------------------------------------------
(* The drawing context of one row: the fields of struct view the           *)
(* primitives read and write, view->curline->selected, the cells written   *)
(* and the return value.                                                   *)

Ctx(v, sel) ==
    [width |-> v.width, pos_col |-> v.pos_col, pos_offset |-> v.pos_offset,
     col |-> v.col, curtype |-> v.curtype, digits |-> v.digits,
     selected |-> sel, win |-> <<>>, ret |-> FALSE, failed |-> FALSE]

VIEW_MAX_LEN(c) == c.width + c.pos_col - c.col

Full(c) == VIEW_MAX_LEN(c) <= 0

\* Variant: true only once the cursor is past the viewport.
Return_past(c) == [c EXCEPT !.ret = VIEW_MAX_LEN(c) < 0]

\* return VIEW_MAX_LEN(view) <= 0;
Return(c) == [c EXCEPT !.ret = Full(c)]

\* return FALSE;
ReturnFalse(c) == [c EXCEPT !.ret = FALSE]

\* size_t skip = view->pos.col > view->col ? view->pos.col - view->col : 0;
Skip(c) == IF c.pos_col > c.col THEN c.pos_col - c.col ELSE 0

AddCol(c, n) == [c EXCEPT !.col = @ + n]

Cells(string, type) == [k \in 1..Len(string) |-> [ch |-> string[k], type |-> type]]

\* Variant: the attribute follows the request on the selected row too.
set_view_attr_any(c, type) ==
    IF c.curtype # type THEN [c EXCEPT !.curtype = type] ELSE c

set_view_attr(c, type) ==
    IF ~c.selected /\ c.curtype # type THEN [c EXCEPT !.curtype = type] ELSE c

waddnstr(c, string) == [c EXCEPT !.win = @ \o Cells(string, c.curtype)]

waddch(c, ch) == [c EXCEPT !.win = Append(@, [ch |-> ch, type |-> c.curtype])]

\* The len bytes at string that draw_chars writes (none when len <= 0).
Shown(string, u) ==
    IF u.len > 0 THEN SubSeq(string, u.start + 1, u.start + u.len) ELSE <<>>

\* Variant: the '~' is written even when no byte of the text is.
draw_chars_tilde_always(c, u, use_tilde) ==
    IF u.trimmed /\ use_tilde
    THEN AddCol(waddch(set_view_attr(c, "LINE_DELIMITER"), "~"), 1)
    ELSE c

\* draw_chars, lines 59-63: the '~' after a trimmed text.
draw_chars_tilde(c, u, use_tilde) ==
    IF u.len > 0 /\ u.trimmed /\ use_tilde
    THEN AddCol(waddch(set_view_attr(c, "LINE_DELIMITER"), "~"), 1)
    ELSE c

\* Variant: a failed conversion answers "viewport full".
draw_chars_put_stop(c, type, string, u, use_tilde) ==
    IF opt.iconv_out # "ICONV_NONE" /\ encoding_iconv(opt.iconv_out, Shown(string, u)) = NULL
    THEN [c EXCEPT !.ret = TRUE]
    ELSE Return(AddCol(draw_chars_tilde(waddnstr(set_view_attr(c, type), Shown(string, u)),
                                        u, use_tilde),
                       u.width))

\* draw_chars, lines 49-67, u being what utf8_length answered.
draw_chars_put(c, type, string, u, use_tilde) ==
    IF opt.iconv_out # "ICONV_NONE" /\ encoding_iconv(opt.iconv_out, Shown(string, u)) = NULL
    THEN Return(c)
    ELSE Return(AddCol(draw_chars_tilde(waddnstr(set_view_attr(c, type), Shown(string, u)),
                                        u, use_tilde),
                       u.width))

\* Variant: max_len <= 0 answers "viewport full" whatever room is left.
draw_chars_stop(c, type, string, max_len, use_tilde) ==
    IF max_len <= 0 THEN [c EXCEPT !.ret = TRUE]
    ELSE draw_chars_put(c, type, string,
                        utf8_length(string, Skip(c), max_len, use_tilde, opt.tab_size),
                        use_tilde)

draw_chars(c, type, string, max_len, use_tilde) ==
    IF max_len <= 0 THEN Return(c)
    ELSE draw_chars_put(c, type, string,
                        utf8_length(string, Skip(c), max_len, use_tilde, opt.tab_size),
                        use_tilde)

RECURSIVE draw_space_loop(_, _, _)

\* draw_space, lines 80-82: c is what draw_chars left.
draw_space_next(c, type, spaces) ==
    IF c.ret THEN c ELSE draw_space_loop(c, type, spaces)

draw_space_loop(c, type, spaces) ==
    IF spaces > 0
    THEN draw_space_next(draw_chars(c, type, Spaces(SPACE_CHUNK),
                                    Min(spaces, SPACE_CHUNK), FALSE),
                         type, spaces - Min(spaces, SPACE_CHUNK))
    ELSE Return(c)

\* Variant: spaces is not clamped to max.
draw_space_all(c, type, max, spaces) == draw_space_loop(c, type, spaces)

draw_space(c, type, max, spaces) == draw_space_loop(c, type, Min(max, spaces))

RECURSIVE draw_text_expanded(_, _, _, _, _)

\* draw_text_expanded, lines 96-101: c is what draw_chars left, rest the
\* part of string not expanded yet.
draw_text_next(c, type, rest, max_len, use_tilde) ==
    IF c.ret THEN c
    ELSE IF rest # <<>> THEN draw_text_expanded(c, type, rest, max_len, use_tilde)
    ELSE Return(c)

\* One pass of the loop, e being what string_expand answered.
draw_text_pass(c, type, string, e, max_len, use_tilde) ==
    draw_text_next(draw_chars(c, type, e.text, max_len, use_tilde), type,
                   SubSeq(string, e.pos + 1, Len(string)), max_len, use_tilde)

draw_text_expanded(c, type, string, max_len, use_tilde) ==
    draw_text_pass(c, type, string, string_expand(SIZEOF_STR, string, opt.tab_size),
                   max_len, use_tilde)

draw_text(c, type, string) ==
    draw_text_expanded(c, type, string, VIEW_MAX_LEN(c), TRUE)

\* draw_graphic, lines 147-148; (max < size) compares as size_t, so a
\* negative max is huge.
GraphicSize(c, size) ==
    IF VIEW_MAX_LEN(c) >= 0 /\ VIEW_MAX_LEN(c) < size THEN VIEW_MAX_LEN(c) ELSE size

\* draw_graphic, lines 157-161; (size < max) compares as size_t too.
draw_graphic_separator(c, max, skip, size, separator) ==
    IF ~separator THEN c
    ELSE AddCol(IF (max < 0 \/ size < max) /\ skip <= size THEN waddch(c, " ") ELSE c, 1)

\* draw_graphic, lines 150-163, size being the clamped size.
draw_graphic_put(c, type, graphic, size, separator) ==
    Return(draw_graphic_separator(
             AddCol(waddnstr(set_view_attr(c, type), SubSeq(graphic, Skip(c) + 1, size)),
                    size),
             VIEW_MAX_LEN(c), Skip(c), size, separator))

draw_graphic(c, type, graphic, size, separator) ==
    draw_graphic_put(c, type, graphic, GraphicSize(c, size), separator)

\* draw_field, line 188: c is what draw_chars left, col the local col.
draw_field_rest(c, max, col) ==
    IF c.ret THEN c ELSE draw_space(c, "LINE_DEFAULT", max - (c.col - col), max)

\* draw_field, lines 180-188: c is what the left padding left, if any.
draw_field_text(c, padded, type, text, max, col, trim) ==
    IF padded /\ c.ret THEN c
    ELSE draw_field_rest(draw_chars(c, type, text, max - 1, trim), max, col)

\* draw_field, lines 179-188.
draw_field_pad(c, type, text, max, leftpad, trim) ==
    IF leftpad > 0
    THEN draw_field_text(draw_space(c, type, leftpad, leftpad), TRUE, type, text,
                         max - leftpad, c.col + leftpad, trim)
    ELSE draw_field_text(c, FALSE, type, text, max, c.col, trim)

\* Variant: the left padding takes the separator's column too.
LeftPad_wide(text, max, align) ==
    IF align = "ALIGN_RIGHT" THEN max - utf8_width_max(text, max) ELSE 0

\* draw_field, lines 175-177: the left padding, 0 when there is none.
LeftPad(text, max, align) ==
    IF align = "ALIGN_RIGHT" THEN max - utf8_width_max(text, max) - 1 ELSE 0

\* draw_field, lines 172-188, max being the reserved span.
draw_field_max(c, type, text, max, align, trim) ==
    IF text = NULL THEN draw_space(c, type, max, max)
    ELSE draw_field_pad(c, type, text, max, LeftPad(text, max, align), trim)

\* Variant: the reserved span is width, without the separator's column.
draw_field_narrow(c, type, text, width, align, trim) ==
    draw_field_max(c, type, text, Min(VIEW_MAX_LEN(c), width), align, trim)

draw_field(c, type, text, width, align, trim) ==
    draw_field_max(c, type, text, Min(VIEW_MAX_LEN(c), width + 1), align, trim)

----------------------------------------------------------------------------
(* Line numbers *)

NUMBER_SIZE == 10    \* char number[10]

RECURSIVE count_digits(_)
count_digits(n) == IF n < 10 THEN 1 ELSE 1 + count_digits(n \div 10)

\* string_format(number, "%<w>d", lineno): the number right-aligned in w
\* columns; NULL when it does not fit number[].
string_format_number(lineno, w) ==
    IF Max(w, count_digits(lineno)) < NUMBER_SIZE
    THEN Spaces(Max(w - count_digits(lineno), 0)) \o [k \in 1..count_digits(lineno) |-> "#"]
    ELSE NULL

Digits3(c) == IF c.digits < 3 THEN 3 ELSE c.digits

\* draw_lineno_custom, lines 276-282: the text of the number, NULL for none.
LinenoText(c, lineno, interval) ==
    IF lineno = 1 \/ (lineno % interval) = 0
    THEN string_format_number(lineno, IF c.digits <= 9 THEN Digits3(c) ELSE 1)
    ELSE NULL

\* draw_lineno_custom, lines 283-286.
draw_lineno_number(c, text, max, digits3) ==
    IF text # NULL THEN draw_chars(c, "LINE_LINE_NUMBER", text, max, TRUE)
    ELSE draw_space(c, "LINE_LINE_NUMBER", max, digits3)

LinenoSeparator == IF opt.line_graphics # 0 THEN "ACS_VLINE" ELSE "|"

\* Variant: the separator glyph is drawn without the blank after it.
draw_lineno_custom_bare(c, lineno, show, interval) ==
    IF ~show THEN ReturnFalse(c)
    ELSE draw_graphic(draw_lineno_number(c, LinenoText(c, lineno, interval),
                                         Min(VIEW_MAX_LEN(c), Digits3(c)), Digits3(c)),
                      "LINE_DEFAULT", <<LinenoSeparator>>, 1, FALSE)

draw_lineno_custom(c, lineno, show, interval) ==
    IF ~show THEN ReturnFalse(c)
    ELSE draw_graphic(draw_lineno_number(c, LinenoText(c, lineno, interval),
                                         Min(VIEW_MAX_LEN(c), Digits3(c)), Digits3(c)),
                      "LINE_DEFAULT", <<LinenoSeparator>>, 1, TRUE)

draw_lineno(c, lineno) ==
    draw_lineno_custom(c, lineno + c.pos_offset + 1, opt.show_line_numbers,
                       opt.line_number_interval)

----------------------------------------------------------------------------
(* The column dispatcher *)

\* view->ops->columns of the views drawn by the dispatcher.
Columns == <<"LINE_NUMBER", "ID", "REF", "TEXT">>

NoWidths == [i \in 1..Len(Columns) |-> 0]

\* The row source: what view->ops->get_columns answers for the line at
\* index idx of the buffer (ok = FALSE: it fails), and the text a view
\* without columns draws for it.
RowData(idx) ==
    CASE idx = 0 -> [ok |-> TRUE, id |-> <<"a">>, ref |-> NULL, text |-> <<"a">>]
      [] idx = 1 -> [ok |-> TRUE, id |-> <<"a", "a", "a">>, ref |-> <<"W">>,
                     text |-> <<"a", "W", "a", "a", "W">>]
      [] idx = 2 -> [ok |-> FALSE, id |-> <<>>, ref |-> NULL, text |-> <<>>]
      [] idx = 3 -> [ok |-> TRUE, id |-> <<"a", "a">>, ref |-> <<"a">>, text |-> <<>>]
      [] OTHER   -> [ok |-> TRUE, id |-> <<"a", "a">>, ref |-> <<"a", "W">>,
                     text |-> <<"W", "W", "W", "W", "W", "W">>]

draw_id_custom(c, type, id, width) ==
    draw_field(c, type, id, width, "ALIGN_LEFT", FALSE)

draw_id(c, id) ==
    IF ~opt.show_id THEN ReturnFalse(c)
    ELSE draw_id_custom(c, "LINE_ID", id, opt.id_width)

\* Widths of the date column (tig.h).
DATE_WIDTH == 16
DATE_SHORT_WIDTH == 10

\* date is what mkdate(time, opt_show_date) answered.
draw_date(c, date) ==
    IF opt.show_date = "DATE_NO" THEN ReturnFalse(c)
    ELSE draw_field(c, "LINE_DATE", date,
                    IF opt.show_date = "DATE_SHORT" THEN DATE_SHORT_WIDTH ELSE DATE_WIDTH,
                    "ALIGN_LEFT", FALSE)

\* text is what mkauthor(author, width, opt_show_author) answered, trim
\* what author_trim(width) answered.
draw_author(c, text, width, trim) ==
    IF opt.show_author = "AUTHOR_NO" THEN ReturnFalse(c)
    ELSE draw_field(c, "LINE_AUTHOR", text, width, "ALIGN_LEFT", trim)

\* isdir is S_ISDIR(mode).
draw_filename(c, filename, auto_enabled, isdir, width) ==
    IF opt.show_filename = "FILENAME_NO" THEN ReturnFalse(c)
    ELSE IF opt.show_filename = "FILENAME_AUTO" /\ ~auto_enabled THEN ReturnFalse(c)
    ELSE draw_field(c, IF isdir THEN "LINE_DIRECTORY" ELSE "LINE_FILE", filename, width,
                    "ALIGN_LEFT",
                    filename # NULL /\ utf8_width(filename) >= width)

\* Variant: a file size column of width 0 is drawn as a field.
draw_file_size_zero(c, str, width, pad) ==
    IF opt.show_file_size = "FILE_SIZE_NO" THEN ReturnFalse(c)
    ELSE draw_field(c, "LINE_FILE_SIZE", IF pad THEN NULL ELSE str, width,
                    "ALIGN_RIGHT", FALSE)

\* str is what mkfilesize(size, opt_show_file_size) answered.
draw_file_size(c, str, width, pad) ==
    IF width = 0 \/ opt.show_file_size = "FILE_SIZE_NO" THEN ReturnFalse(c)
    ELSE draw_field(c, "LINE_FILE_SIZE", IF pad THEN NULL ELSE str, width,
                    "ALIGN_RIGHT", FALSE)

\* The revision graph.  A symbol is [commit, color]; a canvas is a sequence
\* of symbols.
graph_colors ==
    <<"LINE_PALETTE_0", "LINE_PALETTE_1", "LINE_PALETTE_2", "LINE_PALETTE_3",
      "LINE_PALETTE_4", "LINE_PALETTE_5", "LINE_PALETTE_6">>

\* Variant: the colour index of a commit symbol is checked too.
get_graph_color_assert_all(symbol) == symbol.color < Len(graph_colors)

\* assert(symbol->color < ARRAY_SIZE(graph_colors)), in a build that keeps
\* its assertions.
get_graph_color_assert(symbol) == symbol.commit \/ symbol.color < Len(graph_colors)

get_graph_color(symbol) ==
    IF symbol.commit THEN "LINE_GRAPH_COMMIT" ELSE graph_colors[symbol.color + 1]

\* graph.c: every symbol is two cells in each of its three renderings.
graph_symbol_to_ascii(symbol) == IF symbol.commit THEN <<" ", "*">> ELSE <<" ", "|">>

\* The line glyph of the UTF-8 rendering ("X") is a character that the
\* output encoding of IconvOpt does not have.
graph_symbol_to_utf8(symbol) == IF symbol.commit THEN <<" ", "o">> ELSE <<" ", "X">>

graph_symbol_to_chtype(symbol) == IF symbol.commit THEN <<" ", "g">> ELSE <<"g", "g">>

\* chars + !!first
From(chars, first) == IF first THEN Tail(chars) ELSE chars

draw_graph_utf8(c, symbol, color, first) ==
    draw_text(c, color, From(graph_symbol_to_utf8(symbol), first))

draw_graph_ascii(c, symbol, color, first) ==
    draw_text(c, color, From(graph_symbol_to_ascii(symbol), first))

\* Variant: the first symbol is drawn with both its cells.
draw_graph_chtype_whole(c, symbol, color, first) ==
    draw_graphic(c, color, graph_symbol_to_chtype(symbol), 2, FALSE)

draw_graph_chtype(c, symbol, color, first) ==
    draw_graphic(c, color, From(graph_symbol_to_chtype(symbol), first),
                 IF first THEN 1 ELSE 2, FALSE)

\* fns[line_graphics](view, symbol, color, first)
draw_graph_fn(c, symbol, color, first, line_graphics) ==
    CASE line_graphics = 0 -> draw_graph_ascii(c, symbol, color, first)
      [] line_graphics = 1 -> draw_graph_chtype(c, symbol, color, first)
      [] OTHER -> draw_graph_utf8(c, symbol, color, first)

RECURSIVE draw_graph_loop(_, _, _, _)

draw_graph_next(c, canvas, i, line_graphics) ==
    IF c.ret THEN c ELSE draw_graph_loop(c, canvas, i, line_graphics)

\* A failed assertion ends the program: failed is set, and ret = TRUE
\* takes the context out of every loop of the draw callback.
draw_graph_loop(c, canvas, i, line_graphics) ==
    IF i > Len(canvas) THEN draw_text(c, "LINE_DEFAULT", <<" ">>)
    ELSE IF ~get_graph_color_assert(canvas[i])
    THEN [c EXCEPT !.failed = TRUE, !.ret = TRUE]
    ELSE draw_graph_next(draw_graph_fn(c, canvas[i], get_graph_color(canvas[i]), i = 1,
                                       line_graphics),
                         canvas, i + 1, line_graphics)

\* draw_graph with fn = fns[line_graphics].
draw_graph_by(c, canvas, line_graphics) == draw_graph_loop(c, canvas, 1, line_graphics)

draw_graph(c, canvas) == draw_graph_by(c, canvas, opt.line_graphics)

\* view_columns_draw, lines 426-430: c is what (!width && draw_id(...))
\* left, ret its value.
draw_column_id(c, id, width) ==
    IF c.ret THEN c
    ELSE IF opt.show_id THEN draw_id_custom(c, "LINE_ID", id, width)
    ELSE ReturnFalse(c)

\* draw_commit_title (not part of src/) draws the title as a text.
draw_commit_title(c, commit_title) == draw_text(c, "LINE_DEFAULT", commit_title)

\* view_columns_draw, lines 447-454, for a row without refs: c is what
\* (columns.graph && draw_graph(...)) left.
draw_column_title(c, commit_title) ==
    IF c.ret THEN c ELSE draw_commit_title(c, commit_title)

\* One column of the switch of view_columns_draw; ret = TRUE is its
\* "return TRUE", ret = FALSE its "continue".
draw_column(c, column, width, data, lineno) ==
    CASE column = "REF" ->
           draw_field(c, "LINE_DEFAULT", data.ref, width, "ALIGN_LEFT", FALSE)
      [] column = "ID" ->
           draw_column_id(IF width = 0 THEN draw_id(c, data.id) ELSE ReturnFalse(c),
                          data.id, width)
      [] column = "LINE_NUMBER" -> draw_lineno(c, lineno)
      [] column = "COMMIT_TITLE" ->
           draw_column_title(IF data.has_graph THEN draw_graph(c, data.graph)
                             ELSE ReturnFalse(c),
                             data.commit_title)
      [] column = "DATE" -> draw_date(c, data.date)
      [] column = "AUTHOR" ->
           draw_author(c, data.author,
                       IF opt.author_width # 0 THEN opt.author_width ELSE width,
                       data.author_trim)
      [] column = "FILE_SIZE" -> draw_file_size(c, data.file_size, width, data.isdir)
      [] column = "FILE_NAME" ->
           draw_filename(c, data.file_name, TRUE, data.isdir,
                         IF opt.show_filename_width # 0 THEN opt.show_filename_width
                         ELSE width)
      [] OTHER -> draw_text(c, "LINE_DEFAULT", data.text)

\* view->ops->columns of the views that draw a revision graph, and what
\* get_columns answers for their lines: the commit symbol of line 0 has a
\* colour index outside the palette, and so has a line symbol of line 2;
\* the lines after it have no graph (columns.graph is null).
GraphColumns == <<"ID", "COMMIT_TITLE">>

GraphData(idx) ==
    [ok |-> TRUE, id |-> <<"a">>, commit_title |-> <<"a", "a">>,
     graph |-> CASE idx = 0 -> <<[commit |-> TRUE, color |-> Len(graph_colors)]>>
                 [] idx = 1 -> <<[commit |-> FALSE, color |-> 0],
                                 [commit |-> TRUE, color |-> 0]>>
                 [] idx = 2 -> <<[commit |-> FALSE, color |-> 0],
                                 [commit |-> FALSE, color |-> Len(graph_colors)]>>
                 [] OTHER   -> <<>>,
     has_graph |-> idx <= 2]

RECURSIVE view_columns_loop(_, _, _, _, _, _)

view_columns_next(c, columns, i, widths, data, lineno) ==
    IF c.ret THEN c ELSE view_columns_loop(c, columns, i, widths, data, lineno)

view_columns_loop(c, columns, i, widths, data, lineno) ==
    IF i > Len(columns) THEN [c EXCEPT !.ret = TRUE]
    ELSE view_columns_next(draw_column(c, columns[i], widths[i], data, lineno),
                           columns, i + 1, widths, data, lineno)

view_columns_draw(c, widths, idx, lineno) ==
    IF ~RowData(idx).ok THEN [c EXCEPT !.ret = TRUE]
    ELSE view_columns_loop(c, Columns, 1, widths, RowData(idx), lineno)

\* view_columns_draw of a view whose columns are GraphColumns.
view_columns_draw_graph(c, widths, idx, lineno) ==
    view_columns_loop(c, GraphColumns, 1, widths, GraphData(idx), lineno)

----------------------------------------------------------------------------
(* draw_view_line up to the call of the row's draw callback. *)

Drawable(v, lineno) == v.pos_offset + lineno < v.lines

\* The view and the line buffer when view->ops->draw is entered.
draw_view_line_view(v, ln, lineno) ==
    LET idx      == v.pos_offset + lineno
        selected == (v.pos_offset + lineno = v.pos_lineno)
        v1 == [v EXCEPT !.col = 0, !.curline = idx, !.curtype = "LINE_NONE"]
        c  == IF selected THEN set_view_attr(Ctx(v1, FALSE), "LINE_CURSOR")
              ELSE Ctx(v1, FALSE)
    IN  [v1 EXCEPT !.curtype = c.curtype]

\* Variant: the flag of the line is not cleared before the row is drawn.
draw_view_line_line_stale(v, ln, lineno) ==
    LET idx      == v.pos_offset + lineno
        selected == (v.pos_offset + lineno = v.pos_lineno)
    IN  [ln EXCEPT ![idx] = [dirty |-> FALSE, cleareol |-> FALSE,
                             selected |-> ln[idx].selected \/ selected]]

draw_view_line_line(v, ln, lineno) ==
    LET idx      == v.pos_offset + lineno
        selected == (v.pos_offset + lineno = v.pos_lineno)
    IN  [ln EXCEPT ![idx] = [dirty |-> FALSE, cleareol |-> FALSE,
                             selected |-> selected]]

----------------------------------------------------------------------------
(* The redraw scheduler.  A pass works on st = [view, line, log, ret]; the *)
(* log lists what reaches the terminal and the row source, in order.       *)

\* view_columns_info_init and view_columns_info_update for every line of the
\* buffer (view.c, not part of src/): every column's width becomes the
\* widest value of the materialized lines.
RECURSIVE view_columns_info_update(_, _, _)
view_columns_info_update(widths, lines, i) ==
    IF i >= lines THEN widths
    ELSE LET d == RowData(i)
             w == [k \in 1..Len(Columns) |->
                     IF ~d.ok THEN widths[k]
                     ELSE IF Columns[k] = "ID" THEN Max(widths[k], utf8_width(d.id))
                     ELSE IF Columns[k] = "REF" /\ d.ref # NULL
                          THEN Max(widths[k], utf8_width(d.ref))
                     ELSE widths[k]]
         IN  view_columns_info_update(w, lines, i + 1)

\* view->ops->draw(view, line, lineno): the column dispatcher, or a callback
\* of the row source that draws the line's text and answers cb[lineno].
ops_draw(v, ln, lineno, cb) ==
    IF v.ops_draw = "view_columns_draw"
    THEN view_columns_draw(Ctx(v, ln[v.pos_offset + lineno].selected),
                           v.columns_info, v.pos_offset + lineno, lineno)
    ELSE IF v.ops_draw = "view_columns_draw_graph"
    THEN view_columns_draw_graph(Ctx(v, ln[v.pos_offset + lineno].selected),
                                 v.columns_info, v.pos_offset + lineno, lineno)
    ELSE [draw_text(Ctx(v, ln[v.pos_offset + lineno].selected), "LINE_DEFAULT",
                    RowData(v.pos_offset + lineno).text)
            EXCEPT !.ret = cb[lineno]]

\* draw_view_line, lines 488-501, logged.
draw_view_line_log(st, lineno) ==
    (IF st.line[st.view.pos_offset + lineno].cleareol
     THEN <<[ev |-> "wclrtoeol", row |-> lineno]>> ELSE <<>>)
    \o (IF st.view.pos_offset + lineno = st.view.pos_lineno
        THEN <<[ev |-> "select", row |-> lineno]>> ELSE <<>>)

draw_view_line_enter(st, lineno) ==
    [st EXCEPT !.view = draw_view_line_view(st.view, st.line, lineno),
               !.line = draw_view_line_line(st.view, st.line, lineno),
               !.log  = @ \o draw_view_line_log(st, lineno)]

\* draw_view_line, line 503: c is what the draw callback left; an
\* assertion that failed in it ends the pass.
draw_view_line_return(st, lineno, c) ==
    IF c.failed
    THEN [st EXCEPT !.failed = TRUE, !.ret = FALSE,
                    !.log = Append(@, [ev |-> "assert"])]
    ELSE
    [st EXCEPT !.view.col = c.col, !.view.curtype = c.curtype,
               !.log = Append(@, [ev |-> "draw", row |-> lineno, ret |-> c.ret,
                                  full |-> Full(c), widths |-> st.view.columns_info]),
               !.ret = c.ret]

draw_view_line_draw(st, lineno, cb) ==
    draw_view_line_return(st, lineno, ops_draw(st.view, st.line, lineno, cb))

draw_view_line(st, lineno, cb) ==
    IF ~Drawable(st.view, lineno) THEN [st EXCEPT !.ret = FALSE]
    ELSE draw_view_line_draw(draw_view_line_enter(st, lineno), lineno, cb)

RECURSIVE redraw_view_dirty_loop(_, _, _, _)

\* redraw_view_dirty, lines 518-519: st is what draw_view_line left.
redraw_view_dirty_next(st, lineno, cb) ==
    IF ~st.ret THEN [st |-> st, dirty |-> TRUE]
    ELSE redraw_view_dirty_loop(st, lineno, TRUE, cb)

redraw_view_dirty_loop(st, lineno, dirty, cb) ==
    IF lineno >= st.view.height \/ ~Drawable(st.view, lineno)
    THEN [st |-> st, dirty |-> dirty]
    ELSE IF ~st.line[st.view.pos_offset + lineno].dirty
         THEN redraw_view_dirty_loop(st, lineno + 1, dirty, cb)
         ELSE redraw_view_dirty_next(draw_view_line(st, lineno, cb), lineno + 1, cb)

\* Variant: the refresh is issued whether or not a row was dirty.
redraw_view_dirty_end_always(r) ==
    [r.st EXCEPT !.log = Append(@, [ev |-> "wnoutrefresh"])]

\* redraw_view_dirty, lines 522-524.
redraw_view_dirty_end(r) ==
    IF ~r.dirty \/ r.st.failed THEN r.st
    ELSE [r.st EXCEPT !.log = Append(@, [ev |-> "wnoutrefresh"])]

redraw_view_dirty(st, cb) ==
    redraw_view_dirty_end(redraw_view_dirty_loop(st, 0, FALSE, cb))

RECURSIVE redraw_view_from_loop(_, _, _)

\* Variant: the scan stops at the first row that answers true.
redraw_view_from_next_full(st, lineno, cb) ==
    IF st.ret THEN st ELSE redraw_view_from_loop(st, lineno, cb)

redraw_view_from_next(st, lineno, cb) ==
    IF ~st.ret THEN st ELSE redraw_view_from_loop(st, lineno, cb)

redraw_view_from_loop(st, lineno, cb) ==
    IF lineno >= st.view.height THEN st
    ELSE redraw_view_from_next(draw_view_line(st, lineno, cb), lineno + 1, cb)

\* Variant: the widths are left as they are.
redraw_view_from_columns_stale(st) ==
    [st EXCEPT !.view.columns_changed = FALSE]

\* redraw_view_from, lines 532-539.
redraw_view_from_columns(st) ==
    IF st.view.columns_info # NULL /\ st.view.columns_changed
    THEN [st EXCEPT
            !.view.columns_info = view_columns_info_update(NoWidths, st.view.lines, 0),
            !.view.columns_changed = FALSE,
            !.log = Append(@, [ev |-> "columns_info", rows |-> st.view.lines])]
    ELSE st

Refreshed(st) ==
    IF st.failed THEN st ELSE [st EXCEPT !.log = Append(@, [ev |-> "wnoutrefresh"])]

\* failed: assert(0 <= lineno && lineno < view->height) fails.
redraw_view_from(st, lineno, cb) ==
    IF ~(0 <= lineno /\ lineno < st.view.height)
    THEN [st EXCEPT !.failed = TRUE, !.log = Append(@, [ev |-> "assert"])]
    ELSE Refreshed(redraw_view_from_loop(redraw_view_from_columns(st), lineno, cb))

redraw_view(st, cb) ==
    redraw_view_from([st EXCEPT !.log = Append(@, [ev |-> "werase"])], 0, cb)

----------------------------------------------------------------------------
(* Initial states *)

NoLine == -1

CleanLines == [i \in 0..(MaxLines - 1) |->
                 [dirty |-> FALSE, cleareol |-> FALSE, selected |-> FALSE]]

DefaultOpt ==
    [tab_size |-> 8, iconv_out |-> "ICONV_NONE", line_graphics |-> 0,
     show_line_numbers |-> TRUE, line_number_interval |-> 5,
     show_id |-> TRUE, id_width |-> 2,
     show_date |-> "DATE_DEFAULT", show_author |-> "AUTHOR_FULL", author_width |-> 0,
     show_filename |-> "FILENAME_ALWAYS", show_filename_width |-> 0,
     show_file_size |-> "FILE_SIZE_DEFAULT"]

\* opt_iconv_out names a converter: draw_chars converts what it writes.
IconvOpt == [DefaultOpt EXCEPT !.iconv_out = "ICONV_OUT"]

\* ops_draw is view->ops->draw; columns_info the widths of the configured
\* columns (NULL when the view has none); columns_changed what
\* view_columns_info_changed(view, FALSE) answers.
Views(Ws, Ps, Ds, Hs, Ls, Os, Cs, Fs) ==
    {v \in [width : Ws, height : Hs, pos_col : Ps, pos_offset : Os,
            pos_lineno : Cs, col : {0}, curtype : {"LINE_NONE"},
            curline : {NoLine}, digits : Ds, lines : Ls,
            ops_draw : Fs, columns_info : {NULL, NoWidths},
            columns_changed : {FALSE}] :
        /\ v.lines <= MaxLines
        /\ v.pos_offset <= v.pos_lineno
        /\ v.pos_lineno < Max(v.lines, 1)
        /\ (v.ops_draw = "view_columns_draw") = (v.columns_info # NULL)}

InitWith(V, O) ==
    /\ view \in V
    /\ opt \in O
    /\ line = CleanLines
    /\ pc = "idle"
    /\ win = <<>>
    /\ ret = FALSE
    /\ last = [op |-> "none"]
    /\ calls = 0
    /\ log = <<>>

----------------------------------------------------------------------------
(* The row machine: draw_view_line enters a row, the row's draw callback   *)
(* calls primitives one after the other, and returns.                      *)

CurCtx == Ctx(view, line[view.curline].selected)

DrawViewLineEnter ==
    /\ pc = "idle"
    /\ \E lineno \in 0..(view.height - 1) :
         IF ~Drawable(view, lineno)
         THEN /\ ret' = FALSE
              /\ last' = [op |-> "draw_view_line", lineno |-> lineno]
              /\ UNCHANGED <<view, line, opt, pc, win, calls, log>>
         ELSE /\ view' = draw_view_line_view(view, line, lineno)
              /\ line' = draw_view_line_line(view, line, lineno)
              /\ pc' = "row"
              /\ calls' = 0
              /\ win' = <<>>
              /\ last' = [op |-> "draw_view_line", lineno |-> lineno]
              /\ UNCHANGED <<opt, ret, log>>

DrawCallbackReturn ==
    /\ pc = "row"
    /\ \E b \in BOOLEAN :
         /\ ret' = b
         /\ last' = [op |-> "return", full |-> Full(CurCtx)]
    /\ pc' = "idle"
    /\ win' = <<>>
    /\ UNCHANGED <<view, line, opt, calls, log>>

\* The effect of one primitive call that leaves context c1.
Called(c1, op, args) ==
    /\ pc = "row"
    /\ calls < MaxCalls
    /\ view' = [view EXCEPT !.col = c1.col, !.curtype = c1.curtype]
    /\ win' = c1.win
    /\ ret' = c1.ret
    /\ last' = [op |-> op, col0 |-> view.col, curtype0 |-> view.curtype, a |-> args]
    /\ calls' = calls + 1
    /\ UNCHANGED <<line, opt, pc, log>>

\* draw_chars and draw_space are static: clamped = TRUE keeps their max
\* argument within VIEW_MAX_LEN, as every caller in draw.c computes it;
\* clamped = FALSE applies them to any argument.
DrawChars(Ts, Ms, clamped) ==
    /\ pc = "row"
    /\ \E text \in Ts, max_len \in Ms, use_tilde \in BOOLEAN :
         /\ clamped => max_len <= VIEW_MAX_LEN(CurCtx)
         /\ Called(draw_chars(CurCtx, "LINE_DEFAULT", text, max_len, use_tilde),
                "draw_chars",
                [text |-> text, max_len |-> max_len, use_tilde |-> use_tilde])

DrawSpace(Ms, Ss, clamped) ==
    /\ pc = "row"
    /\ \E max \in Ms, spaces \in Ss :
         /\ clamped => max <= VIEW_MAX_LEN(CurCtx)
         /\ Called(draw_space(CurCtx, "LINE_DEFAULT", max, spaces), "draw_space",
                [max |-> max, spaces |-> spaces])

DrawText(Ts) ==
    /\ pc = "row"
    /\ \E text \in Ts :
         Called(draw_text(CurCtx, "LINE_ID", text), "draw_text", [text |-> text])

DrawGraphic(Ss) ==
    /\ pc = "row"
    /\ \E size \in Ss, separator \in BOOLEAN :
         Called(draw_graphic(CurCtx, "LINE_ID", [k \in 1..size |-> "g"], size, separator),
                "draw_graphic", [size |-> size, separator |-> separator])

DrawField(Ts, Ws) ==
    /\ pc = "row"
    /\ \E text \in Ts \cup {NULL}, width \in Ws,
          align \in {"ALIGN_LEFT", "ALIGN_RIGHT"}, trim \in BOOLEAN :
         Called(draw_field(CurCtx, "LINE_ID", text, width, align, trim), "draw_field",
                [text |-> text, width |-> width, align |-> align, trim |-> trim])

DrawLinenoCustom(Ns, Is) ==
    /\ pc = "row"
    /\ \E lineno \in Ns, show \in BOOLEAN, interval \in Is :
         Called(draw_lineno_custom(CurCtx, lineno, show, interval),
                "draw_lineno_custom",
                [lineno |-> lineno, show |-> show, interval |-> interval])

----------------------------------------------------------------------------
(* Spec: one row at a time, any sequence of primitive calls. *)

Init ==
    InitWith(Views(0..MaxWidth, 0..MaxPosCol, {1}, {2}, {2}, {0}, {0}, {"callback"}),
             {DefaultOpt, IconvOpt})

Next ==
    \/ DrawViewLineEnter
    \/ DrawCallbackReturn
    \/ DrawChars(StringsUpTo(MaxText) \cup Unconvertible, 0..MaxWidth, TRUE)
    \/ DrawSpace(0..MaxWidth, 0..MaxWidth, TRUE)
    \/ DrawText(StringsUpTo(MaxText - 1) \cup {[k \in 1..(SIZEOF_STR + 1) |-> "a"]})
    \/ DrawGraphic(0..2)
    \/ DrawField(StringsUpTo(MaxText - 1) \cup Unconvertible, 0..(MaxWidth - 1))
    \/ DrawLinenoCustom({1, 2, 5}, {5})

Spec == Init /\ [][Next]_vars

----------------------------------------------------------------------------
(* SpecPrim: the primitives as functions, applied to any argument where   *)
(* the row starts and where a draw_space call has left the cursor.         *)

AtCursor == calls = 0 \/ (calls = 1 /\ last.op = "draw_space")

NextPrim ==
    \/ DrawViewLineEnter
    \/ DrawCallbackReturn
    \/ AtCursor /\ DrawSpace((-1)..MaxWidth, 0..MaxWidth, FALSE)
    \/ AtCursor /\ DrawChars(StringsUpTo(MaxText) \cup Unconvertible, (-1)..MaxWidth, FALSE)
    \/ AtCursor /\ DrawText(StringsUpTo(MaxText - 1)
                             \cup {[k \in 1..(SIZEOF_STR + 1) |-> "a"]})
    \/ AtCursor /\ DrawGraphic(0..2)
    \/ AtCursor /\ DrawField(StringsUpTo(MaxText - 1) \cup Unconvertible,
                              0..(MaxWidth - 1))

SpecPrim == Init /\ [][NextPrim]_vars

----------------------------------------------------------------------------
(* SpecSched: the redraw scheduler, every pass run to completion, between  *)
(* changes the collaborators make to the lines and the column settings.    *)

MaxHeight == 5       \* view->height of the scheduler's views is 2 or MaxHeight
SchedWidth == 12     \* view->width of the scheduler's views

\* What the row source's draw callback answers, row by row: false on at
\* most one of the rows from lineno on.
AllTrue == [r \in 0..(MaxHeight - 1) |-> TRUE]

Callbacks(lineno) ==
    IF view.ops_draw = "callback"
    THEN {[r \in 0..(MaxHeight - 1) |-> r # k] : k \in lineno..view.height}
    ELSE {AllTrue}

Pass0 == [view |-> view, line |-> line, log |-> <<>>, ret |-> FALSE,
          failed |-> FALSE]

\* The state a pass leaves; a failed assertion ends the program.
Ran(st, op, args) ==
    /\ pc = "idle"
    /\ view' = st.view
    /\ line' = st.line
    /\ log' = st.log
    /\ ret' = st.ret
    /\ pc' = IF st.failed THEN "abort" ELSE "done"
    /\ last' = [op |-> op, a |-> args]
    /\ win' = <<>>
    /\ UNCHANGED <<opt, calls>>

\* The pass has returned to its caller.
Resume ==
    /\ pc = "done"
    /\ pc' = "idle"
    /\ last' = [op |-> "none"]
    /\ log' = <<>>
    /\ ret' = FALSE
    /\ UNCHANGED <<view, line, opt, win, calls>>

\* A collaborator marks a line for repaint.
MarkDirty ==
    /\ pc = "idle"
    /\ \E i \in 0..(view.lines - 1) :
         /\ ~line[i].dirty
         /\ line' = [line EXCEPT ![i].dirty = TRUE, ![i].cleareol = (i % 2 = 0)]
    /\ last' = [op |-> "none"]
    /\ log' = <<>>
    /\ ret' = FALSE
    /\ UNCHANGED <<view, opt, pc, win, calls>>

\* A column setting changes.
ColumnsChange ==
    /\ pc = "idle"
    /\ view.columns_info # NULL
    /\ ~view.columns_changed
    /\ view' = [view EXCEPT !.columns_changed = TRUE]
    /\ last' = [op |-> "none"]
    /\ log' = <<>>
    /\ ret' = FALSE
    /\ UNCHANGED <<line, opt, pc, win, calls>>

DrawViewLine ==
    \E lineno \in 0..(view.height - 1) :
      \E cb \in {c \in Callbacks(lineno) : \A r \in DOMAIN c : r # lineno => c[r]} :
        Ran(draw_view_line(Pass0, lineno, cb), "draw_view_line",
            [lineno |-> lineno])

RedrawViewDirty ==
    \E cb \in Callbacks(0) :
        Ran(redraw_view_dirty(Pass0, cb), "redraw_view_dirty", [lineno |-> 0])

RedrawViewFrom ==
    \E lineno \in 0..view.height :
      \E cb \in Callbacks(lineno) :
        Ran(redraw_view_from(Pass0, lineno, cb), "redraw_view_from",
            [lineno |-> lineno])

RedrawView ==
    \E cb \in Callbacks(0) :
        Ran(redraw_view(Pass0, cb), "redraw_view", [lineno |-> 0])

InitSched ==
    InitWith(Views({SchedWidth}, {0}, {1}, {2, MaxHeight}, {0, 3, MaxLines}, {0, 1}, 0..1,
                   {"view_columns_draw", "callback"}),
             {DefaultOpt})

NextSched ==
    \/ Resume
    \/ MarkDirty
    \/ ColumnsChange
    \/ DrawViewLine
    \/ RedrawViewDirty
    \/ RedrawViewFrom
    \/ RedrawView

SpecSched == InitSched /\ [][NextSched]_vars

----------------------------------------------------------------------------
(* SpecField: fields of every configured width, in wide and narrow views. *)

MaxFieldView == 12   \* view->width is 0..MaxFieldView
MaxFieldWidth == 10  \* the configured width of a field is 0..MaxFieldWidth
MaxFieldText == 2    \* the text of a field has at most MaxFieldText characters

InitField ==
    InitWith(Views(0..MaxFieldView, 0..1, {1}, {2}, {2}, {0}, {0}, {"callback"}),
             {DefaultOpt, IconvOpt})

\* The field is the first thing the draw callback draws.
FirstDrawField ==
    /\ calls = 0
    /\ DrawField(StringsUpTo(MaxFieldText) \cup Unconvertible, 0..MaxFieldWidth)

NextField ==
    \/ DrawViewLineEnter
    \/ DrawCallbackReturn
    \/ FirstDrawField

SpecField == InitField /\ [][NextField]_vars

----------------------------------------------------------------------------
(* SpecLineno: the line-number column, for every digit width and interval. *)

MaxDigits == 10      \* view->digits is 1..MaxDigits
MaxInterval == 5     \* opt_line_number_interval is 1..MaxInterval

DrawLineno ==
    /\ pc = "row"
    /\ Called(draw_lineno(CurCtx, view.curline - view.pos_offset), "draw_lineno",
              [lineno |-> view.curline - view.pos_offset])

\* view->digits is the number of digits of the view's line count, set
\* where the lines are read; draw.c only reads it.  The lines here are the
\* window of the buffer that draw_view_line can reach.
InitLineno ==
    InitWith(Views({2, MaxDigits + 2}, {0, 1}, 1..MaxDigits, {MaxLines}, {MaxLines},
                   {0, 1}, {1}, {"callback"}),
             {[DefaultOpt EXCEPT !.line_number_interval = i, !.line_graphics = g] :
                i \in 1..MaxInterval, g \in 0..1})

NextLineno ==
    \/ DrawViewLineEnter
    \/ DrawCallbackReturn
    \/ DrawLineno
    \/ DrawLinenoCustom({1, 7, 1000, 1000000000}, {1, 5})

SpecLineno == InitLineno /\ [][NextLineno]_vars

----------------------------------------------------------------------------
(* SpecSpace: draw_space in views wide enough for several chunks of        *)
(* space[], called as draw_field and draw_lineno_custom call it: with max  *)
(* at most the width that is left.                                         *)

MaxSpaces == 42      \* view->width, max and spaces are at most MaxSpaces

Lengths == {-1, 0, 1, 2, SPACE_CHUNK - 1, SPACE_CHUNK, SPACE_CHUNK + 1,
            2 * SPACE_CHUNK, 2 * SPACE_CHUNK + 1, MaxSpaces}

InitSpace ==
    InitWith(Views({0, 1, SPACE_CHUNK + 1, MaxSpaces}, 0..1, {1}, {2}, {2}, {0}, {0},
                   {"callback"}),
             {DefaultOpt})

NextSpace ==
    \/ DrawViewLineEnter
    \/ DrawCallbackReturn
    \/ AtCursor /\ DrawSpace(Lengths, Lengths, TRUE)

SpecSpace == InitSpace /\ [][NextSpace]_vars

----------------------------------------------------------------------------
(* SpecText: draw_text_expanded on strings longer than its scratch buffer, *)
(* called as draw_text and draw_text_overflow call it: with max_len at     *)
(* most the width that is left.                                            *)

MaxLongText == 5     \* strings of SpecText have at most MaxLongText characters
MaxTextView == 5     \* view->width of SpecText is 0..MaxTextView

DrawTextExpanded(Ts, Ms) ==
    /\ pc = "row"
    /\ \E text \in Ts, max_len \in Ms, use_tilde \in BOOLEAN :
         /\ max_len <= VIEW_MAX_LEN(CurCtx)
         /\ Called(draw_text_expanded(CurCtx, "LINE_ID", text, max_len, use_tilde),
                   "draw_text_expanded",
                   [text |-> text, max_len |-> max_len, use_tilde |-> use_tilde])

InitText ==
    InitWith(Views(0..MaxTextView, 0..MaxPosCol, {1}, {2}, {2}, {0}, {0}, {"callback"}),
             {DefaultOpt})

NextText ==
    \/ DrawViewLineEnter
    \/ DrawCallbackReturn
    \/ AtCursor /\ DrawSpace(0..1, 0..1, TRUE)
    \/ AtCursor /\ DrawText(StringsUpTo(MaxLongText))
    \/ AtCursor /\ DrawTextExpanded(StringsUpTo(MaxLongText), 0..MaxTextView)

SpecText == InitText /\ [][NextText]_vars

----------------------------------------------------------------------------
(* SpecColumn: the switch of view_columns_draw one column at a time, on    *)
(* any column kind, and the typed wrappers other views call directly.      *)

MaxColView == 18     \* view->width of SpecColumn is at most MaxColView
MaxColWidth == 2     \* view->columns_info[i].width is 0..MaxColWidth

\* Every display option off.
OffOpt ==
    [DefaultOpt EXCEPT !.show_line_numbers = FALSE, !.show_id = FALSE,
                       !.show_date = "DATE_NO", !.show_author = "AUTHOR_NO",
                       !.show_filename = "FILENAME_NO",
                       !.show_file_size = "FILE_SIZE_NO"]

AutoOpt ==
    [DefaultOpt EXCEPT !.show_date = "DATE_SHORT", !.show_filename = "FILENAME_AUTO",
                       !.author_width = 1]

ColumnKinds == {"DATE", "AUTHOR", "REF", "ID", "LINE_NUMBER", "FILE_SIZE", "FILE_NAME",
                "TEXT"}

\* What get_columns and the formatters answer for a row of a file tree.
FileData(isdir, author_trim) ==
    [id |-> <<"a">>, ref |-> <<"W">>, text |-> <<"a", "W">>,
     date |-> <<"#", "#", "#">>, author |-> <<"a", "a">>, author_trim |-> author_trim,
     file_size |-> <<"#">>, file_name |-> <<"a", "a", "a">>, isdir |-> isdir]

\* One pass of the loop of view_columns_draw; the loop goes on while the
\* column drawn before answered FALSE.
DrawColumn ==
    /\ pc = "row"
    /\ calls > 0 => ~ret
    /\ \E column \in ColumnKinds, width \in 0..MaxColWidth, isdir \in BOOLEAN :
         Called(draw_column(CurCtx, column, width, FileData(isdir, isdir),
                            view.curline - view.pos_offset),
                "draw_column", [column |-> column, width |-> width, isdir |-> isdir])

DrawFilename ==
    /\ pc = "row"
    /\ \E auto_enabled \in BOOLEAN, width \in 0..MaxColWidth :
         Called(draw_filename(CurCtx, <<"a", "a", "a">>, auto_enabled, FALSE, width),
                "draw_filename", [auto_enabled |-> auto_enabled, width |-> width])

InitColumn ==
    InitWith(Views({0, 1, 3, MaxColView}, 0..1, {1}, {2}, {2}, {0}, {0}, {"callback"}),
             {DefaultOpt, OffOpt, AutoOpt})

NextColumn ==
    \/ DrawViewLineEnter
    \/ DrawCallbackReturn
    \/ DrawColumn
    \/ DrawFilename
    \/ DrawLinenoCustom({1, 5}, {5})

SpecColumn == InitColumn /\ [][NextColumn]_vars

----------------------------------------------------------------------------
(* SpecCursor: the scheduler's passes between moves of the cursor line and *)
(* of the window.                                                          *)

MaxCursorLines == 3  \* view->lines of SpecCursor

\* A collaborator moves the cursor line or scrolls the window.
MoveCursor ==
    /\ pc = "idle"
    /\ \E lineno \in 0..(view.lines - 1), offset \in 0..1 :
         /\ offset <= lineno
         /\ <<lineno, offset>> # <<view.pos_lineno, view.pos_offset>>
         /\ view' = [view EXCEPT !.pos_lineno = lineno, !.pos_offset = offset]
    /\ last' = [op |-> "none"]
    /\ log' = <<>>
    /\ ret' = FALSE
    /\ UNCHANGED <<line, opt, pc, win, calls>>

InitCursor ==
    InitWith(Views({SchedWidth}, {0}, {1}, {2}, {MaxCursorLines}, {0, 1}, 0..1,
                   {"view_columns_draw", "callback"}),
             {DefaultOpt})

NextCursor ==
    \/ Resume
    \/ MoveCursor
    \/ MarkDirty
    \/ DrawViewLine
    \/ RedrawViewDirty
    \/ RedrawViewFrom
    \/ RedrawView

SpecCursor == InitCursor /\ [][NextCursor]_vars

----------------------------------------------------------------------------
(* SpecGraph: draw_graph on canvases of up to MaxCanvas symbols, under     *)
(* each of the three renderings.                                           *)

MaxCanvas == 3       \* canvas->size is 0..MaxCanvas
MaxGraphView == 7    \* view->width of SpecGraph is 0..MaxGraphView

Symbols ==
    {[commit |-> TRUE, color |-> 0], [commit |-> FALSE, color |-> 0],
     [commit |-> FALSE, color |-> Len(graph_colors) - 1]}

Canvases == UNION {[1..n -> Symbols] : n \in 0..MaxCanvas}

DrawGraph ==
    /\ pc = "row"
    /\ \E canvas \in Canvases :
         Called(draw_graph(CurCtx, canvas), "draw_graph", [canvas |-> canvas])

InitGraph ==
    InitWith(Views(0..MaxGraphView, 0..MaxPosCol, {1}, {2}, {2}, {0}, {0}, {"callback"}),
             {[o EXCEPT !.line_graphics = g] : o \in {DefaultOpt, IconvOpt}, g \in 0..2})

NextGraph ==
    \/ DrawViewLineEnter
    \/ DrawCallbackReturn
    \/ AtCursor /\ DrawSpace(0..1, 0..1, TRUE)
    \/ AtCursor /\ DrawGraph

SpecGraph == InitGraph /\ [][NextGraph]_vars

----------------------------------------------------------------------------
(* SpecAssert: the scheduler's passes on views of any height, with any     *)
(* lineno, over lines whose graph symbols may carry any colour index.      *)

MaxAssertLines == 4  \* view->lines of SpecAssert is at most MaxAssertLines

\* The views whose rows the dispatcher draws with a revision graph.
GraphViews(V) == {[v EXCEPT !.ops_draw = "view_columns_draw_graph"] : v \in V}

InitAssert ==
    InitWith(Views({1, SchedWidth}, {0}, {1}, {0, 2}, {0, 2, MaxAssertLines}, {0, 1}, 0..1,
                   {"view_columns_draw", "callback"})
             \cup GraphViews(Views({1, SchedWidth}, {0}, {1}, {0, 2},
                                   {0, 2, MaxAssertLines}, {0, 1}, 0..1,
                                   {"view_columns_draw"})),
             {DefaultOpt})

NextAssert ==
    \/ Resume
    \/ MarkDirty
    \/ DrawViewLine
    \/ RedrawViewDirty
    \/ RedrawViewFrom
    \/ RedrawView

SpecAssert == InitAssert /\ [][NextAssert]_vars

----------------------------------------------------------------------------
(* Properties of the row machine (Spec) *)

Limit == view.width + view.pos_col

Chars(cells) == [k \in 1..Len(cells) |-> cells[k].ch]

RECURSIVE StringWidth(_)
StringWidth(string) ==
    IF string = <<>> THEN 0
    ELSE (IF Head(string) = "W" THEN 2 ELSE 1) + StringWidth(Tail(string))

CellWriters == {"draw_chars", "draw_space", "draw_text", "draw_graphic", "draw_field"}

\* C1: during the render of one row view.col never exceeds
\* view.width + view.pos.col.
C1_ColWithinViewport == pc = "row" => view.col <= Limit

\* C6: a cell-writing primitive returns true if and only if it leaves
\* view.col at or past view.width + view.pos.col.
C6_ReturnIffFull ==
    (pc = "row" /\ last.op \in CellWriters) => (ret = (view.col >= Limit))

C6_Witness ==
    /\ pc = "row" /\ last.op = "draw_field" /\ ret
    /\ last.col0 < Limit /\ view.col = Limit /\ win # <<>>

----------------------------------------------------------------------------
(* Properties of draw_chars (SpecPrim) *)

Prefix(string, k) == SubSeq(string, 1, k)

\* The longest prefix of string that is at most n columns wide.
Clip(string, n) ==
    Prefix(string, CHOOSE k \in 0..Len(string) :
                     /\ StringWidth(Prefix(string, k)) <= n
                     /\ k < Len(string) => StringWidth(Prefix(string, k + 1)) > n)

\* string without its shortest prefix that covers the n columns scrolled
\* off to the left (nothing is left when the whole string is scrolled off).
Unscrolled(string, n) ==
    IF StringWidth(string) < n THEN <<>>
    ELSE SubSeq(string,
                1 + (CHOOSE k \in 0..Len(string) :
                       /\ StringWidth(Prefix(string, k)) >= n
                       /\ k > 0 => StringWidth(Prefix(string, k - 1)) < n),
                Len(string))

ScrolledOff == IF view.pos_col > last.col0 THEN view.pos_col - last.col0 ELSE 0

\* A text wider than max_len >= 1 was drawn by draw_chars with use_tilde.
TrimCase ==
    /\ pc = "row" /\ last.op = "draw_chars"
    /\ last.a.use_tilde /\ last.a.max_len >= 1
    /\ StringWidth(last.a.text) > last.a.max_len

\* The part of the text that fits before the '~', and what is visible of it.
Clipped == Clip(last.a.text, last.a.max_len - 1)
VisibleClipped == Unscrolled(Clipped, ScrolledOff)

Converts(string) ==
    opt.iconv_out = "ICONV_NONE" \/ \A k \in 1..Len(string) : string[k] # "X"

----------------------------------------------------------------------------
(* Properties of draw_field (SpecField) *)

FieldCase == pc = "row" /\ last.op = "draw_field"

\* The reserved span: min(remaining viewport width, width + 1).
Reserved == Min(Limit - last.col0, last.a.width + 1)

\* C2: a draw_field call made when at least width + 1 cells remain
\* advances view.col by exactly width + 1, whatever the alignment, trim
\* and text (NULL included).
C2_FieldAdvance ==
    (FieldCase /\ Limit - last.col0 >= last.a.width + 1)
        => view.col = last.col0 + last.a.width + 1

C2_Witness ==
    /\ FieldCase /\ last.a.width = 2 /\ last.a.text = <<"a", "W">>
    /\ last.a.trim /\ last.a.align = "ALIGN_LEFT"
    /\ Limit - last.col0 > 3
    /\ view.col = last.col0 + 3
    /\ Chars(win) = <<"a", "~", " ">>

RightCase == FieldCase /\ last.a.align = "ALIGN_RIGHT" /\ last.a.text # NULL

LeadingPad == Reserved - StringWidth(last.a.text) - 1

\* What is drawn of a text that fits: blanks when its conversion fails.
Converted(string) ==
    IF Converts(string) THEN string ELSE Spaces(StringWidth(string))

\* C8: a right-aligned field whose text is t columns wide is, when
\* Reserved - t - 1 is positive, that many blanks, the text and the one
\* blank that ends the reserved span (less what is scrolled off to the
\* left); otherwise no blank cell precedes a cell of the text.
C8_RightAlign ==
    RightCase =>
        IF LeadingPad > 0
        THEN /\ Chars(win) = Unscrolled(Spaces(LeadingPad) \o Converted(last.a.text)
                                          \o <<" ">>,
                                        ScrolledOff)
             /\ view.col = last.col0 + Reserved
        ELSE \A j, k \in 1..Len(win) : (j < k /\ win[j].ch = " ") => win[k].ch = " "

C8_Witness ==
    /\ RightCase /\ last.a.width = 10 /\ last.a.text = <<"W", "W">>
    /\ Reserved = 11 /\ LeadingPad = 6 /\ ScrolledOff = 0
    /\ Chars(win) = Spaces(6) \o <<"W", "W">> \o <<" ">>
    /\ view.col = last.col0 + 11

----------------------------------------------------------------------------
(* Properties of the line-number column (SpecLineno) *)

Advance == view.col - last.col0

\* max(3, view.digits), the width of the number area.
NumberArea == Max(3, view.digits)

Room == Limit - last.col0

Separators == {k \in 1..Len(win) : win[k].ch \in {"|", "ACS_VLINE"}}

LinenoCustomCase == pc = "row" /\ last.op = "draw_lineno_custom" /\ last.a.show

\* C9 as claimed: with show = true and room for the area and one more
\* cell, the row's number or blank area is followed by exactly one
\* separator cell, which ends what is written, and view.col advances by
\* max(3, view.digits) + 1.
C9_OneCellSeparator ==
    (LinenoCustomCase /\ Room >= NumberArea + 1)
        => /\ Separators = {Len(win)}
           /\ Advance = NumberArea + 1

\* draw_lineno_custom has a number to write: the row is numbered and the
\* number fits number[].
HasNumber ==
    /\ last.a.lineno = 1 \/ last.a.lineno % last.a.interval = 0
    /\ count_digits(last.a.lineno) < NUMBER_SIZE

\* The width of the number or blank area.
AreaWidth ==
    IF HasNumber /\ view.digits > 9 THEN count_digits(last.a.lineno) ELSE NumberArea

\* C9, amended: with show = true and room for the area and two more
\* cells, the area is followed by exactly one separator glyph and one
\* blank after it, and view.col advances by the width of the area plus
\* 2; the area is max(3, view.digits) wide, except that a number drawn
\* with view.digits > 9 is as wide as its digits.
C9_SeparatorThenBlank ==
    (LinenoCustomCase /\ Room >= NumberArea + 2)
        => /\ Separators = {Len(win) - 1}
           /\ win[Len(win)] = [ch |-> " ", type |-> view.curtype]
           /\ Advance = AreaWidth + 2

C9_Witness ==
    /\ LinenoCustomCase /\ last.a.lineno = 7 /\ last.a.interval = 5
    /\ view.digits = 4 /\ ScrolledOff = 0 /\ opt.line_graphics = 0
    /\ Chars(win) = <<" ", " ", " ", " ", "|", " ">>
    /\ Advance = 6

\* The 1-based absolute line number of the row draw_lineno drew.
AbsoluteLineno == last.a.lineno + view.pos_offset + 1

Numbered == AbsoluteLineno = 1 \/ AbsoluteLineno % opt.line_number_interval = 0

\* What draw_lineno_custom advances view.col by on a row without number.
UnnumberedAdvance ==
    draw_lineno_custom([CurCtx EXCEPT !.col = last.col0, !.curtype = last.curtype0],
                       2, TRUE, 3).col - last.col0

\* C10: with room for the area and its separator, draw_lineno writes the
\* digits of a number exactly on the rows whose absolute line number is
\* 1 or a multiple of the interval, and advances view.col on every row
\* by what it advances on a row without number.
C10_NumberedRows ==
    (pc = "row" /\ last.op = "draw_lineno" /\ Room >= NumberArea + 2)
        => /\ Numbered <=> (\E k \in 1..Len(win) : win[k].ch = "#")
           /\ Advance = UnnumberedAdvance

----------------------------------------------------------------------------
(* Properties of the redraw scheduler (SpecSched).  In a step that runs a  *)
(* pass, view and line are the state before the pass, view', line' and     *)
(* log' the state after it and what it did.                                *)

DrawEvents(lg) == SelectSeq(lg, LAMBDA e : e.ev = "draw")

DrawnRows(lg) == [k \in 1..Len(DrawEvents(lg)) |-> DrawEvents(lg)[k].row]

Count(lg, ev) == Cardinality({k \in 1..Len(lg) : lg[k].ev = ev})

RECURSIVE Ascending(_)
Ascending(S) ==
    IF S = {} THEN <<>>
    ELSE <<CHOOSE x \in S : \A y \in S : x <= y>>
         \o Ascending(S \ {CHOOSE x \in S : \A y \in S : x <= y})

Materialized(r) == view.pos_offset + r < view.lines

\* The rows that are dirty, materialized and within the visible height.
DirtyRows ==
    {r \in 0..(view.height - 1) : Materialized(r) /\ line[view.pos_offset + r].dirty}

\* The materialized rows from lineno to height - 1.
RowsFrom(lineno) == {r \in lineno..(view.height - 1) : Materialized(r)}

ByDispatcher == view.ops_draw = "view_columns_draw"

\* C3: redraw_view_dirty on a view drawn by the column dispatcher
\* repaints exactly the dirty, materialized, visible rows, once each in
\* ascending order; it clears their dirty flag and leaves every other
\* line as it was; it refreshes once, at the end, if a row was repainted
\* and not at all otherwise.
C3_DirtyPass ==
    [][(last'.op = "redraw_view_dirty" /\ ByDispatcher)
         => /\ DrawnRows(log') = Ascending(DirtyRows)
            /\ \A i \in DOMAIN line :
                 IF \E r \in DirtyRows : i = view.pos_offset + r
                 THEN ~line'[i].dirty
                 ELSE line'[i] = line[i]
            /\ Count(log', "wnoutrefresh") = (IF DirtyRows = {} THEN 0 ELSE 1)
            /\ DirtyRows # {} => log'[Len(log')].ev = "wnoutrefresh"]_vars

C3_Witness ==
    /\ pc = "done" /\ last.op = "redraw_view_dirty" /\ ByDispatcher
    /\ view.lines = 5 /\ view.height = 5 /\ view.pos_offset = 0
    /\ DrawnRows(log) = <<1, 3>>
    /\ Count(log, "wnoutrefresh") = 1
    /\ \A i \in 0..4 : ~line[i].dirty

ScanPasses == {"redraw_view_dirty", "redraw_view_from", "redraw_view"}

\* C4 as claimed: a painted row answers true exactly when it filled the
\* viewport width, and no row is painted after one that answered true.
C4_TrueIffFull ==
    (pc = "done" /\ last.op \in ScanPasses)
        => \A k \in 1..Len(DrawEvents(log)) :
             /\ DrawEvents(log)[k].ret = DrawEvents(log)[k].full
             /\ DrawEvents(log)[k].ret => k = Len(DrawEvents(log))

\* The rows a pass goes through unless it stops early.
ScanRows ==
    IF last'.op = "redraw_view_dirty" THEN DirtyRows ELSE RowsFrom(last'.a.lineno)

\* C4, amended: draw_view_line answers false for a row that is not
\* materialized and otherwise what the view's draw callback answers,
\* which is true for the column dispatcher whether or not the row filled
\* the viewport; redraw_view_dirty and redraw_view_from stop their scan
\* at the first row that answers false, painting no later row, while a
\* row that answers true lets the scan continue.
C4_StopAtFalse ==
    [][/\ (last'.op = "draw_view_line" /\ ~Materialized(last'.a.lineno)) => ~ret'
       /\ (last'.op = "draw_view_line" /\ Materialized(last'.a.lineno) /\ ByDispatcher)
            => ret'
       /\ (last'.op \in ScanPasses /\ pc' = "done")
            => /\ \E n \in 0..Cardinality(ScanRows) :
                    DrawnRows(log') = SubSeq(Ascending(ScanRows), 1, n)
               /\ \A k \in 1..Len(DrawEvents(log')) :
                    /\ ~DrawEvents(log')[k].ret => k = Len(DrawEvents(log'))
                    /\ ByDispatcher => DrawEvents(log')[k].ret
               /\ (\A k \in 1..Len(DrawEvents(log')) : DrawEvents(log')[k].ret)
                    => DrawnRows(log') = Ascending(ScanRows)]_vars

C4_Witness ==
    /\ pc = "done" /\ last.op = "redraw_view_from" /\ last.a.lineno = 0
    /\ view.height = 5 /\ view.lines = 5 /\ view.pos_offset = 0
    /\ DrawnRows(log) = <<0, 1>>
    /\ DrawEvents(log)[1].ret /\ ~DrawEvents(log)[1].full
    /\ ~DrawEvents(log)[2].ret

FromPasses == {"redraw_view_from", "redraw_view"}

\* Where the pass proper starts in the log: after redraw_view's erase.
FromStart == IF last'.op = "redraw_view" THEN 2 ELSE 1

\* C5: redraw_view_from(lineno) on a view whose column configuration
\* changed recomputes the widths over all materialized lines before it
\* paints a row, paints every materialized row from lineno to height - 1
\* in ascending order whatever its dirty flag, with the new widths, and
\* refreshes exactly once, at the end; redraw_view erases the viewport
\* first and does this from row 0.
C5_FullPass ==
    [][(/\ last'.op \in FromPasses /\ pc' = "done"
        /\ view.columns_info # NULL /\ view.columns_changed)
         => /\ Count(log', "werase") = FromStart - 1
            /\ last'.op = "redraw_view" => (log'[1].ev = "werase" /\ last'.a.lineno = 0)
            /\ log'[FromStart] = [ev |-> "columns_info", rows |-> view.lines]
            /\ Count(log', "columns_info") = 1
            /\ ~view'.columns_changed
            /\ DrawnRows(log') = Ascending(RowsFrom(last'.a.lineno))
            /\ \A k \in 1..Len(DrawEvents(log')) :
                 DrawEvents(log')[k].widths = view'.columns_info
            /\ Count(log', "wnoutrefresh") = 1
            /\ log'[Len(log')].ev = "wnoutrefresh"]_vars

C5_Witness ==
    /\ pc = "done" /\ last.op = "redraw_view"
    /\ view.height = 5 /\ view.lines = 5 /\ view.pos_offset = 0
    /\ log[1].ev = "werase" /\ log[2].ev = "columns_info"
    /\ view.columns_info # NoWidths
    /\ DrawnRows(log) = <<0, 1, 2, 3, 4>>
    /\ log[Len(log)].ev = "wnoutrefresh"

----------------------------------------------------------------------------
(* Properties of draw_chars: its two early returns (SpecPrim) *)

CharsCase == pc = "row" /\ last.op = "draw_chars"

\* The part of the text draw_chars selects for writing: clipped to
\* max_len columns (max_len - 1 to leave room for a '~'), less what is
\* scrolled off to the left.
Selected ==
    IF StringWidth(last.a.text) > last.a.max_len
    THEN Unscrolled(Clip(last.a.text,
                         IF last.a.use_tilde THEN last.a.max_len - 1 ELSE last.a.max_len),
                    ScrolledOff)
    ELSE Unscrolled(last.a.text, ScrolledOff)

\* An output encoding is configured and the conversion of the selected
\* part fails.
ConversionFails == CharsCase /\ last.a.max_len >= 1 /\ ~Converts(Selected)

\* Nothing was written, and neither the cursor nor the attribute moved.
NothingDrawn ==
    win = <<>> /\ view.col = last.col0 /\ view.curtype = last.curtype0

\* C14 as claimed: when the conversion fails draw_chars (called with a
\* max_len of at most the width that is left) writes no cell, leaves
\* view.col unchanged and returns true.
C14_FailureStops ==
    (ConversionFails /\ last.a.max_len <= Limit - last.col0) => (NothingDrawn /\ ret)

\* C14, amended: when the conversion fails draw_chars writes no cell,
\* leaves view.col unchanged and returns whether the viewport was already
\* full (view.col >= view.width + view.pos.col), so that with room left
\* the caller goes on drawing.
C14_FailureReturnsFull ==
    ConversionFails => (NothingDrawn /\ ret = (last.col0 >= Limit))

C14_Witness ==
    /\ ConversionFails /\ last.a.text = <<"X", "a", "a">> /\ last.a.max_len = 2
    /\ last.col0 < Limit /\ NothingDrawn /\ ~ret

\* C15 as claimed: with max_len <= 0 draw_chars writes no cell, leaves
\* view.col unchanged and returns true, whatever width remains.
C15_NoLengthStops ==
    (CharsCase /\ last.a.max_len <= 0) => (NothingDrawn /\ ret)

\* C15, amended: with max_len <= 0 draw_chars writes no cell, leaves
\* view.col unchanged and returns whether the viewport is full
\* (view.col >= view.width + view.pos.col): false while width remains.
C15_NoLengthReturnsFull ==
    (CharsCase /\ last.a.max_len <= 0)
        => (NothingDrawn /\ ret = (last.col0 >= Limit))

C15_Witness ==
    /\ CharsCase /\ last.a.max_len = 0 /\ last.a.text # <<>>
    /\ Limit - last.col0 >= 2 /\ NothingDrawn /\ ~ret

----------------------------------------------------------------------------
(* Properties of draw_space (SpecSpace) *)

RECURSIVE draw_space_by(_, _, _, _)

draw_space_by_next(c, type, spaces, chunk) ==
    IF c.ret THEN c ELSE draw_space_by(c, type, spaces, chunk)

\* draw_space with a working buffer of chunk blanks.
draw_space_by(c, type, spaces, chunk) ==
    IF spaces > 0
    THEN draw_space_by_next(draw_chars(c, type, Spaces(chunk), Min(spaces, chunk), FALSE),
                            type, spaces - Min(spaces, chunk), chunk)
    ELSE Return(c)

ChunkSizes == {1, 3, MaxSpaces}

\* The context the last primitive was called in.
Ctx0 == [CurCtx EXCEPT !.col = last.col0, !.curtype = last.curtype0]

SpaceCase == pc = "row" /\ last.op = "draw_space"

----------------------------------------------------------------------------
(* Properties of draw_text_expanded (SpecText) *)

TextCase == pc = "row" /\ last.op \in {"draw_text", "draw_text_expanded"}

\* max_len of the last call: draw_text passes the width that was left.
TextMaxLen ==
    IF last.op = "draw_text" THEN Limit - last.col0 ELSE last.a.max_len

\* C20: draw_text_expanded advances view.col by at most max_len over all
\* its passes, and draw_text never moves view.col past view.width +
\* view.pos.col.
C20_AdvanceWithinMaxLen ==
    TextCase =>
        /\ view.col - last.col0 <= Max(TextMaxLen, 0)
        /\ last.op = "draw_text" => view.col <= Max(Limit, last.col0)

----------------------------------------------------------------------------
(* Properties of set_view_attr (Spec) *)

RowSelected == line[view.curline].selected

CellTypes == {win[i].type : i \in 1..Len(win)}

\* The types the primitive calls of a draw callback request.
Requested == {"LINE_DEFAULT", "LINE_ID", "LINE_DELIMITER", "LINE_LINE_NUMBER"}

\* C17: while the selected row is painted view.curtype stays LINE_CURSOR
\* and every cell is written with it; on any other row view.curtype is
\* the type requested last: that of the last cell written, the type
\* draw_graphic was called with, and otherwise a requested type or the
\* type it was before the call.
C17_CursorAttrKept ==
    /\ (pc = "row" /\ RowSelected) =>
          (view.curtype = "LINE_CURSOR" /\ CellTypes \subseteq {"LINE_CURSOR"})
    /\ (pc = "row" /\ last.op # "draw_view_line") =>
        IF RowSelected
        THEN last.curtype0 = "LINE_CURSOR"
        ELSE /\ CellTypes \subseteq Requested
             /\ (win # <<>> /\ last.op \notin {"draw_graphic", "draw_lineno_custom"})
                   => view.curtype = win[Len(win)].type
             /\ view.curtype \in Requested \cup {last.curtype0}
             /\ last.curtype0 \in Requested \cup {"LINE_NONE"}
             /\ last.op = "draw_graphic" => view.curtype = "LINE_ID"

C17_Witness ==
    /\ pc = "row" /\ RowSelected /\ last.op = "draw_chars" /\ last.a.use_tilde
    /\ Chars(win) = <<"a", "~">>
    /\ CellTypes = {"LINE_CURSOR"} /\ view.curtype = "LINE_CURSOR"

----------------------------------------------------------------------------
(* Properties of the switch of view_columns_draw (SpecColumn) *)

ColumnCase(column) == pc = "row" /\ last.op = "draw_column" /\ last.a.column = column

\* C18: an id column of width 0, with id display on and at least
\* opt_id_width + 2 cells left in an unscrolled view, advances view.col
\* by opt_id_width + 1: one field, and no zero-width field after it.
C18_IdDrawnOnce ==
    (/\ ColumnCase("ID") /\ last.a.width = 0 /\ opt.show_id
     /\ view.pos_col = 0 /\ Limit - last.col0 >= opt.id_width + 2)
        => (view.col - last.col0 = opt.id_width + 1 /\ Len(win) = opt.id_width + 1)

\* The wrapper called last is one the options suppress.
SuppressedColumn ==
    /\ last.op = "draw_column"
    /\ \/ last.a.column = "DATE" /\ opt.show_date = "DATE_NO"
       \/ last.a.column = "AUTHOR" /\ opt.show_author = "AUTHOR_NO"
       \/ last.a.column = "ID" /\ ~opt.show_id
       \/ last.a.column = "FILE_NAME" /\ opt.show_filename = "FILENAME_NO"
       \/ last.a.column = "FILE_SIZE"
            /\ (last.a.width = 0 \/ opt.show_file_size = "FILE_SIZE_NO")
       \/ last.a.column = "LINE_NUMBER" /\ ~opt.show_line_numbers

SuppressedCall ==
    \/ /\ last.op = "draw_filename"
       /\ \/ opt.show_filename = "FILENAME_NO"
          \/ opt.show_filename = "FILENAME_AUTO" /\ ~last.a.auto_enabled
    \/ last.op = "draw_lineno_custom" /\ ~last.a.show

Suppressed == pc = "row" /\ (SuppressedColumn \/ SuppressedCall)

\* C16: a suppressed wrapper writes no cell, leaves view.col and
\* view.curtype as they were and returns FALSE, and the column the
\* dispatcher draws after it starts at the view.col the suppressed one
\* started at.
C16_SuppressedDrawsNothing ==
    [][/\ Suppressed' => (NothingDrawn' /\ ~ret')
       /\ (Suppressed /\ pc' = "row" /\ last'.op = "draw_column")
            => (last'.col0 = last.col0 /\ last'.curtype0 = last.curtype0)]_vars

C16_Witness ==
    /\ Suppressed /\ last.op = "draw_filename" /\ ~last.a.auto_enabled
    /\ opt.show_filename = "FILENAME_AUTO"
    /\ calls = 2 /\ last.col0 > view.pos_col /\ last.col0 < Limit
    /\ NothingDrawn /\ ~ret

----------------------------------------------------------------------------
(* Properties of line->selected (SpecCursor) *)

SelectedLines == {i \in DOMAIN line : line[i].selected}

\* The lines of the buffer a pass has drawn, lg being its log.
DrawnLines(lg) == {view.pos_offset + DrawnRows(lg)[k] : k \in 1..Len(DrawnRows(lg))}

\* C12 as claimed: at most one line has selected set, and a line that
\* has it set is the line at pos.lineno.
C12_OneSelected ==
    /\ Cardinality(SelectedLines) <= 1
    /\ SelectedLines \subseteq {view.pos_lineno}

\* C12, amended: a pass leaves every line it has drawn with selected set
\* exactly when the line is the one at pos.lineno, and leaves the flag
\* of every line it has not drawn as it was.
C12_DrawnLinesFollowCursor ==
    [][(pc = "idle" /\ pc' \in {"done", "abort"})
         => \A i \in DOMAIN line :
              IF i \in DrawnLines(log')
              THEN line'[i].selected = (i = view.pos_lineno)
              ELSE line'[i].selected = line[i].selected]_vars

C12_Witness ==
    /\ pc = "done" /\ last.op = "draw_view_line"
    /\ view.pos_lineno = 1 /\ view.pos_offset = 0
    /\ DrawnRows(log) = <<1>>
    /\ SelectedLines = {0, 1}

----------------------------------------------------------------------------
(* Properties of draw_graph (SpecGraph) *)

GraphCase == pc = "row" /\ last.op = "draw_graph"

Room2(canvas) == Limit - last.col0 >= 2 * Len(canvas)

\* The view.col and the value that each of the three renderings leaves
\* and returns are those of the state.
SameUnderEachRendering(canvas) ==
    \A g \in 0..2 :
      /\ draw_graph_by(Ctx0, canvas, g).col = view.col
      /\ draw_graph_by(Ctx0, canvas, g).ret = ret

GlyphsConvert(canvas) ==
    \A i \in 1..Len(canvas) : Converts(graph_symbol_to_utf8(canvas[i]))

----------------------------------------------------------------------------
(* Properties of the assertions (SpecAssert) *)

\* A line symbol of the canvas has a colour index outside the palette.
BadCanvas(canvas) ==
    \E i \in 1..Len(canvas) : ~canvas[i].commit /\ canvas[i].color >= Len(graph_colors)

BadLine(i) ==
    /\ view.ops_draw = "view_columns_draw_graph"
    /\ GraphData(i).has_graph
    /\ BadCanvas(GraphData(i).graph)

\* The pass ends in a failed assertion.
Aborts == pc = "idle" /\ pc' = "abort"

Completes == pc = "idle" /\ pc' = "done"

\* The lineno of redraw_view_from is outside 0..height - 1.
OutOfRange ==
    /\ last'.op \in {"redraw_view_from", "redraw_view"}
    /\ ~(0 <= last'.a.lineno /\ last'.a.lineno < view.height)

\* The rows of the window a pass is to draw.
RowsToDraw ==
    CASE last'.op = "draw_view_line" -> {r \in {last'.a.lineno} : Materialized(r)}
      [] last'.op = "redraw_view_dirty" -> DirtyRows
      [] OTHER -> IF OutOfRange THEN {} ELSE RowsFrom(last'.a.lineno)

BadRowToDraw == \E r \in RowsToDraw : BadLine(view.pos_offset + r)

\* C13 as claimed: a pass fails an assertion only when a line symbol
\* of a line of the view carries a colour index outside the palette.
C13_OnlyPaletteAssertion ==
    [][Aborts => \E i \in 0..(view.lines - 1) : BadLine(i)]_vars

\* C13, amended: a pass fails an assertion only when redraw_view_from is
\* given a lineno outside 0..height - 1 (redraw_view: when height is 0)
\* or a row it is to draw has a line symbol with a colour index outside
\* the palette; it does fail in the first case, and in the second when
\* the view is wide enough for draw_graph to reach the symbol; a commit
\* symbol fails none.
C13_TwoAssertions ==
    [][/\ Aborts => (OutOfRange \/ BadRowToDraw)
       /\ Completes => ~OutOfRange
       /\ (Completes /\ view.width = SchedWidth) => ~BadRowToDraw]_vars

C13_Witness ==
    /\ pc = "abort" /\ last.op = "redraw_view" /\ view.height = 2
    /\ view.ops_draw = "view_columns_draw_graph"
    /\ view.pos_offset = 1 /\ view.lines = 4
    /\ log[Len(log)].ev = "assert"
    /\ Count(log, "draw") = 1

====
